---- MODULE Spec2Model ----
(***************************************************************************)
(* Model of src/src/biblioteca.py: the Libro record, the loan functions    *)
(* prestar_libro / devolver_libro, the Biblioteca catalogue and its JSON   *)
(* persistence.  Strings that the code inspects character by character     *)
(* (strip) are sequences of one-character strings; an Optional value is    *)
(* the empty sequence (None) or a one-element sequence.                    *)
(***************************************************************************)
EXTENDS Integers, Sequences, FiniteSets, TLC

\* ------------------------------------------------------------------ bounds
MaxLibros == 2
MaxReloj == 1
TicksPorDia == 2

\* ------------------------------------------------------- program constants
DIAS_PRESTAMO == 14

\* Largest timestamp a datetime can hold (datetime.max), scaled to the model's
\* clock: every loan of DIAS_PRESTAMO days taken at a reachable clock fits.
FechaMax == MaxReloj + 2 * DIAS_PRESTAMO * TicksPorDia
FechaMin == 0

\* ------------------------------------------------------------ input domains
None == <<>>
Some(v) == <<v>>

Isbns == {"", "111"}
\* the works a caller registers: titulo, autor and the genero argument, which is
\* omitted (None) or given
Obras == {<<(<<"A", "SIGMA">>), (<<"B">>), None>>,
          <<(<<"a", "b">>), (<<"a">>), Some("Novela")>>}
\* loan requests, prestatario and dias: an empty name, a whitespace-only name, a
\* padded name and a plain name for the default period, and a period that no
\* datetime can absorb
Pedidos == {<<(<<>>), DIAS_PRESTAMO>>,
            <<(<<" ">>), DIAS_PRESTAMO>>,
            <<(<<" ", "a", " ">>), DIAS_PRESTAMO>>,
            <<(<<"b">>), DIAS_PRESTAMO>>,
            <<(<<"b">>), FechaMax + 1>>}

\* the rows of the table a user selects from: the first MaxFila
MaxFila == 1

\* the books of _crear_datos_ejemplo: titulo, autor, isbn, genero
EJEMPLOS ==
    <<
      <<<<"C", "i", "e", "n", " ", "a", "ñ", "o", "s", " ", "d", "e", " ", "s",
          "o", "l", "e", "d", "a", "d">>,
        <<"G", "a", "b", "r", "i", "e", "l", " ", "G", "a", "r", "c", "í", "a",
          " ", "M", "á", "r", "q", "u", "e", "z">>,
        "978-0-06-088328-7", "Novela">>,
      <<<<"D", "o", "n", " ", "Q", "u", "i", "j", "o", "t", "e", " ", "d", "e",
          " ", "l", "a", " ", "M", "a", "n", "c", "h", "a">>,
        <<"M", "i", "g", "u", "e", "l", " ", "d", "e", " ", "C", "e", "r", "v",
          "a", "n", "t", "e", "s">>,
        "978-84-376-0494-7", "Clásico">>,
      <<<<"E", "l", " ", "P", "r", "i", "n", "c", "i", "p", "i", "t", "o">>,
        <<"A", "n", "t", "o", "i", "n", "e", " ", "d", "e", " ", "S", "a", "i",
          "n", "t", "-", "E", "x", "u", "p", "é", "r", "y">>,
        "978-0-15-601219-5", "Infantil">>,
      <<<<"1", "9", "8", "4">>,
        <<"G", "e", "o", "r", "g", "e", " ", "O", "r", "w", "e", "l", "l">>,
        "978-0-451-52493-5", "Ciencia Ficción">>,
      <<<<"R", "a", "y", "u", "e", "l", "a">>,
        <<"J", "u", "l", "i", "o", " ", "C", "o", "r", "t", "á", "z", "a", "r">>,
        "978-84-376-0602-6", "Novela">>,
      <<<<"L", "a", " ", "s", "o", "m", "b", "r", "a", " ", "d", "e", "l", " ",
          "v", "i", "e", "n", "t", "o">>,
        <<"C", "a", "r", "l", "o", "s", " ", "R", "u", "i", "z", " ", "Z", "a",
          "f", "ó", "n">>,
        "978-84-08-04171-3", "Misterio">>,
      <<<<"C", "r", "ó", "n", "i", "c", "a", " ", "d", "e", " ", "u", "n", "a",
          " ", "m", "u", "e", "r", "t", "e", " ", "a", "n", "u", "n", "c", "i",
          "a", "d", "a">>,
        <<"G", "a", "b", "r", "i", "e", "l", " ", "G", "a", "r", "c", "í", "a",
          " ", "M", "á", "r", "q", "u", "e", "z">>,
        "978-84-376-0781-8", "Novela">>,
      <<<<"H", "a", "r", "r", "y", " ", "P", "o", "t", "t", "e", "r", " ", "y",
          " ", "l", "a", " ", "p", "i", "e", "d", "r", "a", " ", "f", "i", "l",
          "o", "s", "o", "f", "a", "l">>,
        <<"J", ".", "K", ".", " ", "R", "o", "w", "l", "i", "n", "g">>,
        "978-84-7888-445-8", "Fantasía">>
    >>

\* the texts a caller searches for
Textos == {<<>>, <<"B">>, <<"SIGMA">>}

\* ------------------------------------------------------------------- str
EsEspacio(c) == c = " "

RECURSIVE lstrip(_)
lstrip(s) ==
    IF s = <<>> THEN <<>>
    ELSE IF EsEspacio(Head(s)) THEN lstrip(Tail(s)) ELSE s

RECURSIVE rstrip(_)
rstrip(s) ==
    IF s = <<>> THEN <<>>
    ELSE IF EsEspacio(s[Len(s)]) THEN rstrip(SubSeq(s, 1, Len(s) - 1)) ELSE s

strip(s) == rstrip(lstrip(s))

\* The characters of the model's texts: " ", "a", "b", "A", "B" and the Greek
\* sigma in its three forms, "SIGMA" (U+03A3), "sigma" (U+03C3) and
\* "sigma_final" (U+03C2).
ConCaja(c) == c \in {"a", "b", "A", "B", "SIGMA", "sigma", "sigma_final"}

\* str.lower on one character, whatever its place
Minuscula(c) ==
    CASE c = "A" -> "a" [] c = "B" -> "b" [] c = "SIGMA" -> "sigma" [] OTHER -> c

\* Final_Sigma: a capital sigma after a cased letter and not before one
SigmaFinal(s, i) ==
    /\ s[i] = "SIGMA"
    /\ i > 1 /\ ConCaja(s[i - 1])
    /\ ~(i < Len(s) /\ ConCaja(s[i + 1]))

\* str.lower
lower(s) ==
    [i \in 1..Len(s) |-> IF SigmaFinal(s, i) THEN "sigma_final" ELSE Minuscula(s[i])]

\* sub in s
Contiene(sub, s) ==
    \E k \in 0..(Len(s) - Len(sub)) : SubSeq(s, k + 1, k + Len(sub)) = sub

\* ------------------------------------------------------------- datetime
\* datetime.isoformat(): the text of a timestamp
isoformat(t) == <<"iso", t>>

\* datetime + timedelta(days=d) raises OverflowError outside the datetime range
SumaDesborda(t, d) ==
    LET r == t + d * TicksPorDia IN r < FechaMin \/ r > FechaMax

SumaDias(t, d) == t + d * TicksPorDia

\* ---------------------------------------------------------------- Libro
Libro(titulo, autor, isbn, genero) ==
    [titulo |-> titulo, autor |-> autor, isbn |-> isbn, genero |-> genero,
     disponible |-> TRUE, fecha_prestamo |-> None,
     fecha_devolucion |-> None, prestatario |-> None]

VARIABLES libros, archivo, reloj, ultimo, ciclo, consulta

vars == <<libros, archivo, reloj, ultimo, ciclo, consulta>>


\* Libro.to_dict that leaves prestatario out
to_dict_sin_prestatario(libro) ==
    [titulo |-> libro.titulo, autor |-> libro.autor, isbn |-> libro.isbn,
     genero |-> libro.genero, disponible |-> libro.disponible,
     fecha_prestamo |-> libro.fecha_prestamo,
     fecha_devolucion |-> libro.fecha_devolucion]

\* Libro.to_dict: the flat key-value form of a book
to_dict(libro) ==
    [titulo |-> libro.titulo, autor |-> libro.autor, isbn |-> libro.isbn,
     genero |-> libro.genero, disponible |-> libro.disponible,
     fecha_prestamo |-> libro.fecha_prestamo,
     fecha_devolucion |-> libro.fecha_devolucion,
     prestatario |-> libro.prestatario]

\* dict.get(clave, defecto)
Get(d, clave, defecto) == IF clave \in DOMAIN d THEN d[clave] ELSE defecto

\* Libro.from_dict: genero, disponible and the loan fields fall back to defaults
from_dict(datos) ==
    [Libro(datos["titulo"], datos["autor"], datos["isbn"],
           Get(datos, "genero", "General"))
       EXCEPT !.disponible = Get(datos, "disponible", TRUE),
              !.fecha_prestamo = Get(datos, "fecha_prestamo", None),
              !.fecha_devolucion = Get(datos, "fecha_devolucion", None),
              !.prestatario = Get(datos, "prestatario", None)]

\* ----------------------------------------------------------------- JSON
\* JSON values: null, a string, a boolean
JNull == [t |-> "null", v |-> <<>>]
JStr(s) == [t |-> "string", v |-> s]
JBool(b) == [t |-> "bool", v |-> b]

ClavesOpcionales == {"fecha_prestamo", "fecha_devolucion", "prestatario"}

\* json.dump of one value of a book's dict: None -> null, bool -> true/false
json_valor(clave, v) ==
    IF clave \in ClavesOpcionales
    THEN (IF v = None THEN JNull ELSE JStr(v[1]))
    ELSE IF clave = "disponible" THEN JBool(v) ELSE JStr(v)

\* json.load of one value
python_valor(clave, j) ==
    IF j.t = "null" THEN None
    ELSE IF clave \in ClavesOpcionales THEN Some(j.v) ELSE j.v

json_dump(datos) ==
    [i \in 1..Len(datos) |->
        [clave \in DOMAIN datos[i] |-> json_valor(clave, datos[i][clave])]]

json_load(texto) ==
    [i \in 1..Len(texto) |->
        [clave \in DOMAIN texto[i] |-> python_valor(clave, texto[i][clave])]]

\* The file: whether it exists, whether its text is well-formed JSON, and the
\* array of objects the text holds.
\* the file before it is first written
ArchivoAusente == [existe |-> FALSE, bien_formado |-> TRUE, texto |-> <<>>]

\* ---------------------------------------------------- loan functions
\* prestar_libro that looks at disponible before it looks at the name
prestar_libro_disponible_primero(libro, prestatario, dias_prestamo, t1, t2) ==
    IF ~libro.disponible
    THEN [libro |-> libro, ret |-> "False", error |-> ""]
    ELSE IF prestatario = <<>> \/ strip(prestatario) = <<>>
    THEN [libro |-> libro, ret |-> "raise", error |-> "ValueError: prestatario vacio"]
    ELSE LET l1 == [libro EXCEPT !.disponible = FALSE,
                                 !.prestatario = Some(strip(prestatario)),
                                 !.fecha_prestamo = Some(isoformat(t1))]
         IN  IF SumaDesborda(t2, dias_prestamo)
             THEN [libro |-> l1, ret |-> "raise", error |-> "OverflowError"]
             ELSE [libro |-> [l1 EXCEPT !.fecha_devolucion =
                                 Some(isoformat(SumaDias(t2, dias_prestamo)))],
                   ret |-> "True", error |-> ""]

\* prestar_libro; t1 and t2 are the two readings of datetime.now().  The result
\* carries the book as the call leaves it, also when the call raises.
prestar_libro(libro, prestatario, dias_prestamo, t1, t2) ==
    IF prestatario = <<>> \/ strip(prestatario) = <<>>
    THEN [libro |-> libro, ret |-> "raise", error |-> "ValueError: prestatario vacio"]
    ELSE IF ~libro.disponible
    THEN [libro |-> libro, ret |-> "False", error |-> ""]
    ELSE LET l1 == [libro EXCEPT !.disponible = FALSE,
                                 !.prestatario = Some(strip(prestatario)),
                                 !.fecha_prestamo = Some(isoformat(t1))]
         IN  IF SumaDesborda(t2, dias_prestamo)
             THEN [libro |-> l1, ret |-> "raise", error |-> "OverflowError"]
             ELSE [libro |-> [l1 EXCEPT !.fecha_devolucion =
                                 Some(isoformat(SumaDias(t2, dias_prestamo)))],
                   ret |-> "True", error |-> ""]

\* whether prestar_libro reaches its readings of the clock
prestar_libro_lee_reloj(libro, prestatario) ==
    ~(prestatario = <<>> \/ strip(prestatario) = <<>>) /\ libro.disponible

\* devolver_libro without its test of disponible
devolver_libro_sin_guarda(libro) ==
    [libro |-> [libro EXCEPT !.disponible = TRUE,
                             !.prestatario = None,
                             !.fecha_prestamo = None,
                             !.fecha_devolucion = None],
     ret |-> "True"]

\* devolver_libro that leaves fecha_devolucion in place
devolver_libro_olvida_fecha(libro) ==
    IF libro.disponible
    THEN [libro |-> libro, ret |-> "False"]
    ELSE [libro |-> [libro EXCEPT !.disponible = TRUE,
                                  !.prestatario = None,
                                  !.fecha_prestamo = None],
          ret |-> "True"]

devolver_libro(libro) ==
    IF libro.disponible
    THEN [libro |-> libro, ret |-> "False"]
    ELSE [libro |-> [libro EXCEPT !.disponible = TRUE,
                                  !.prestatario = None,
                                  !.fecha_prestamo = None,
                                  !.fecha_devolucion = None],
          ret |-> "True"]

\* ------------------------------------------------------------ Biblioteca
\* buscar_por_isbn with an isbn test that an empty isbn fails
buscar_por_isbn_isbn_vacio(ls, isbn) ==
    LET coinciden == {i \in 1..Len(ls) : isbn # "" /\ ls[i].isbn = isbn}
    IN  IF coinciden = {} THEN 0
        ELSE CHOOSE i \in coinciden : \A j \in coinciden : i <= j

\* buscar_por_isbn: position of the first book with that isbn, 0 for None
buscar_por_isbn(ls, isbn) ==
    LET coinciden == {i \in 1..Len(ls) : ls[i].isbn = isbn}
    IN  IF coinciden = {} THEN 0
        ELSE CHOOSE i \in coinciden : \A j \in coinciden : i <= j

\* guardar_datos: the whole collection overwrites the file
guardar_datos(ls) ==
    [existe |-> TRUE, bien_formado |-> TRUE,
     texto |-> json_dump([i \in 1..Len(ls) |-> to_dict(ls[i])])]

\* cargar_datos: the collection read from the file; ls when there is no file
cargar_datos(ls, arch) ==
    IF arch.existe
    THEN LET datos == json_load(arch.texto)
         IN  [i \in 1..Len(datos) |-> from_dict(datos[i])]
    ELSE ls

buscar_por_titulo(ls, titulo) ==
    LET titulo_lower == lower(titulo)
    IN  SelectSeq(ls, LAMBDA l : Contiene(titulo_lower, lower(l.titulo)))

buscar_por_autor(ls, autor) ==
    LET autor_lower == lower(autor)
    IN  SelectSeq(ls, LAMBDA l : Contiene(autor_lower, lower(l.autor)))

listar_disponibles(ls) == SelectSeq(ls, LAMBDA l : l.disponible)

\* listar_prestados with the test of listar_disponibles
listar_prestados_sin_not(ls) == SelectSeq(ls, LAMBDA l : l.disponible)

listar_prestados(ls) == SelectSeq(ls, LAMBDA l : ~l.disponible)

\* the generos dict of estadisticas: one pass, generos.get(genero, 0) + 1
RECURSIVE ContarGeneros(_)
ContarGeneros(ls) ==
    IF ls = <<>> THEN [g \in {} |-> 0]
    ELSE LET generos == ContarGeneros(SubSeq(ls, 1, Len(ls) - 1))
             genero == ls[Len(ls)].genero
         IN  [g \in DOMAIN generos \cup {genero} |->
                 IF g = genero THEN Get(generos, g, 0) + 1 ELSE generos[g]]

estadisticas(ls) ==
    [total |-> Len(ls),
     disponibles |-> Len(listar_disponibles(ls)),
     prestados |-> Len(listar_prestados(ls)),
     generos |-> ContarGeneros(ls)]

\* from_dict that also subscripts datos["genero"]
from_dict_falla_exige_genero(datos) ==
    ~({"titulo", "autor", "isbn", "genero"} \subseteq DOMAIN datos)

\* Libro.from_dict raises KeyError: datos["titulo"], datos["autor"] and
\* datos["isbn"] are subscripted, the other keys are read with .get
from_dict_falla(datos) == ~({"titulo", "autor", "isbn"} \subseteq DOMAIN datos)

\* list.remove(ls[i])
Quitar(ls, i) == SubSeq(ls, 1, i - 1) \o SubSeq(ls, i + 1, Len(ls))

\* Every operation yields the collection and the file as the call leaves them,
\* what it returned ("raise" when it raised), the error, and whether it saved.
Resultado(ls, arch, ret, error, guardo) ==
    [libros |-> ls, archivo |-> arch, ret |-> ret, error |-> error,
     guardo |-> guardo]

\* Biblioteca(): self.libros = [] and then cargar_datos, whose json.load and
\* from_dict may raise; the exception leaves __init__ with self.libros == []
Biblioteca_init(arch) ==
    IF arch.existe /\ ~arch.bien_formado
    THEN Resultado(<<>>, arch, "raise", "JSONDecodeError", FALSE)
    ELSE IF /\ arch.existe
            /\ \E i \in 1..Len(arch.texto) : from_dict_falla(json_load(arch.texto)[i])
    THEN Resultado(<<>>, arch, "raise", "KeyError", FALSE)
    ELSE Resultado(cargar_datos(<<>>, arch), arch, "None", "", FALSE)

\* agregar_libro without the check of the isbn
agregar_libro_sin_control(ls, arch, titulo, autor, isbn, generoArg) ==
    LET genero == IF generoArg = None THEN "General" ELSE generoArg[1]
        nuevos == Append(ls, Libro(titulo, autor, isbn, genero))
    IN  Resultado(nuevos, guardar_datos(nuevos), "Libro", "", TRUE)

\* agregar_libro that puts the new book first
agregar_libro_al_frente(ls, arch, titulo, autor, isbn, generoArg) ==
    IF buscar_por_isbn(ls, isbn) # 0
    THEN Resultado(ls, arch, "raise", "ValueError: isbn duplicado", FALSE)
    ELSE LET genero == IF generoArg = None THEN "General" ELSE generoArg[1]
             nuevos == <<Libro(titulo, autor, isbn, genero)>> \o ls
         IN  Resultado(nuevos, guardar_datos(nuevos), "Libro", "", TRUE)

agregar_libro(ls, arch, titulo, autor, isbn, generoArg) ==
    IF buscar_por_isbn(ls, isbn) # 0
    THEN Resultado(ls, arch, "raise", "ValueError: isbn duplicado", FALSE)
    ELSE LET genero == IF generoArg = None THEN "General" ELSE generoArg[1]
             nuevos == Append(ls, Libro(titulo, autor, isbn, genero))
         IN  Resultado(nuevos, guardar_datos(nuevos), "Libro", "", TRUE)

\* eliminar_libro without its test of disponible
eliminar_libro_sin_disponible(ls, arch, isbn) ==
    LET i == buscar_por_isbn(ls, isbn)
    IN  IF i # 0
        THEN LET nuevos == Quitar(ls, i)
             IN  Resultado(nuevos, guardar_datos(nuevos), "True", "", TRUE)
        ELSE Resultado(ls, arch, "False", "", FALSE)

eliminar_libro(ls, arch, isbn) ==
    LET i == buscar_por_isbn(ls, isbn)
    IN  IF i # 0 /\ ls[i].disponible
        THEN LET nuevos == Quitar(ls, i)
             IN  Resultado(nuevos, guardar_datos(nuevos), "True", "", TRUE)
        ELSE Resultado(ls, arch, "False", "", FALSE)

\* prestar that saves whenever prestar_libro returns
prestar_guarda_siempre(ls, arch, isbn, prestatario, dias, t1, t2) ==
    LET i == buscar_por_isbn(ls, isbn)
    IN  IF i = 0
        THEN Resultado(ls, arch, "raise", "ValueError: isbn no encontrado", FALSE)
        ELSE LET r == prestar_libro(ls[i], prestatario, dias, t1, t2)
                 nuevos == [ls EXCEPT ![i] = r.libro]
             IN  IF r.ret # "raise"
                 THEN Resultado(nuevos, guardar_datos(nuevos), r.ret, "", TRUE)
                 ELSE Resultado(nuevos, arch, r.ret, r.error, FALSE)

\* prestar that checks the borrower name before it looks for the book
prestar_valida_nombre_primero(ls, arch, isbn, prestatario, dias, t1, t2) ==
    LET i == buscar_por_isbn(ls, isbn)
    IN  IF prestatario = <<>> \/ strip(prestatario) = <<>>
        THEN Resultado(ls, arch, "raise", "ValueError: prestatario vacio", FALSE)
        ELSE IF i = 0
        THEN Resultado(ls, arch, "raise", "ValueError: isbn no encontrado", FALSE)
        ELSE LET r == prestar_libro(ls[i], prestatario, dias, t1, t2)
                 nuevos == [ls EXCEPT ![i] = r.libro]
             IN  IF r.ret = "True"
                 THEN Resultado(nuevos, guardar_datos(nuevos), "True", "", TRUE)
                 ELSE Resultado(nuevos, arch, r.ret, r.error, FALSE)

prestar(ls, arch, isbn, prestatario, dias, t1, t2) ==
    LET i == buscar_por_isbn(ls, isbn)
    IN  IF i = 0
        THEN Resultado(ls, arch, "raise", "ValueError: isbn no encontrado", FALSE)
        ELSE LET r == prestar_libro(ls[i], prestatario, dias, t1, t2)
                 nuevos == [ls EXCEPT ![i] = r.libro]
             IN  IF r.ret = "True"
                 THEN Resultado(nuevos, guardar_datos(nuevos), "True", "", TRUE)
                 ELSE Resultado(nuevos, arch, r.ret, r.error, FALSE)

devolver(ls, arch, isbn) ==
    LET i == buscar_por_isbn(ls, isbn)
    IN  IF i = 0
        THEN Resultado(ls, arch, "raise", "ValueError: isbn no encontrado", FALSE)
        ELSE LET r == devolver_libro(ls[i])
                 nuevos == [ls EXCEPT ![i] = r.libro]
             IN  IF r.ret = "True"
                 THEN Resultado(nuevos, guardar_datos(nuevos), "True", "", TRUE)
                 ELSE Resultado(nuevos, arch, "False", "", FALSE)

\* ------------------------------------------------------------- the state
\* libros: Biblioteca.libros.  archivo: the file ARCHIVO_DATOS.  reloj: the last
\* value datetime.now() gave.  ultimo: the last call, its arguments and outcome.
\* the loop of _crear_datos_ejemplo from the k-th example on: agregar_libro,
\* a ValueError passed over
RECURSIVE AgregarEjemplos(_, _, _, _)
AgregarEjemplos(ls, arch, k, guardo) ==
    IF k > Len(EJEMPLOS) THEN Resultado(ls, arch, "None", "", guardo)
    ELSE LET e == EJEMPLOS[k]
             r == agregar_libro(ls, arch, e[1], e[2], e[3], Some(e[4]))
         IN  AgregarEjemplos(r.libros, r.archivo, k + 1, guardo \/ r.guardo)

\* _crear_datos_ejemplo without the test of an empty collection
crear_datos_ejemplo_sin_guarda(ls, arch) == AgregarEjemplos(ls, arch, 1, FALSE)

\* _crear_datos_ejemplo: the examples are added only to an empty collection
crear_datos_ejemplo(ls, arch) ==
    IF Len(ls) > 0 THEN Resultado(ls, arch, "None", "", FALSE)
    ELSE AgregarEjemplos(ls, arch, 1, FALSE)

Llamada(op, isbn, titulo, autor, genero, prestatario, dias, r) ==
    [op |-> op, isbn |-> isbn, titulo |-> titulo, autor |-> autor,
     genero |-> genero, prestatario |-> prestatario, dias |-> dias,
     ret |-> r.ret, error |-> r.error, guardo |-> r.guardo]

\* ciclo follows one book through lend, return, lend again: fase 1 after a
\* performed prestar (isbn, trimmed borrower), fase 2 when the very next call is
\* devolver of that isbn, fase 3 when the call after that is prestar of that isbn
\* for the default period to another non-blank borrower; 0 otherwise.
SinCiclo == [fase |-> 0, isbn |-> "", prestatario |-> <<>>]

CicloTras(c, ll) ==
    IF /\ c.fase = 2 /\ ll.op = "prestar" /\ ll.isbn = c.isbn
       /\ strip(ll.prestatario) \notin {<<>>, c.prestatario}
       /\ ll.dias = DIAS_PRESTAMO
    THEN [c EXCEPT !.fase = 3]
    ELSE IF ll.op = "prestar" /\ ll.ret = "True"
    THEN [fase |-> 1, isbn |-> ll.isbn, prestatario |-> strip(ll.prestatario)]
    ELSE IF c.fase = 1 /\ ll.op = "devolver" /\ ll.isbn = c.isbn
    THEN [c EXCEPT !.fase = 2]
    ELSE SinCiclo

\* consulta: what the last call returned when it was a search, a listing or
\* estadisticas
SinEstadisticas ==
    [total |-> 0, disponibles |-> 0, prestados |-> 0, generos |-> [g \in {} |-> 0]]

SinConsulta == [op |-> "", texto |-> <<>>, lista |-> <<>>, stats |-> SinEstadisticas]

Registrar(ll) ==
    /\ ultimo' = ll
    /\ ciclo' = CicloTras(ciclo, ll)
    /\ consulta' = SinConsulta

\* a call that only reads the collection
RegistrarConsulta(op, texto, lista, stats) ==
    /\ ultimo' = Llamada(op, "", <<>>, <<>>, None, <<>>, 0,
                         Resultado(libros, archivo, "None", "", FALSE))
    /\ ciclo' = SinCiclo
    /\ consulta' = [op |-> op, texto |-> texto, lista |-> lista, stats |-> stats]

Init ==
    /\ ciclo = SinCiclo
    /\ consulta = SinConsulta
    /\ archivo = ArchivoAusente
    /\ libros = cargar_datos(<<>>, ArchivoAusente)
    /\ reloj = 0
    /\ ultimo = Llamada("__init__", "", <<>>, <<>>, None, <<>>, 0,
                        Resultado(<<>>, ArchivoAusente, "None", "", FALSE))

\* a new Biblioteca() over the file the previous one left
Construir ==
    LET r == Biblioteca_init(archivo)
    IN  /\ libros' = r.libros
        /\ Registrar(Llamada("__init__", "", <<>>, <<>>, None, <<>>, 0, r))
        /\ UNCHANGED <<archivo, reloj>>

AgregarLibro ==
    \E obra \in Obras, isbn \in Isbns :
        LET titulo == obra[1]
            autor == obra[2]
            g == obra[3]
            r == agregar_libro(libros, archivo, titulo, autor, isbn, g)
        IN  /\ Len(libros) < MaxLibros \/ r.ret = "raise"
            /\ libros' = r.libros
            /\ archivo' = r.archivo
            /\ Registrar(Llamada("agregar_libro", isbn, titulo, autor, g, <<>>, 0, r))
            /\ UNCHANGED reloj

EliminarLibro ==
    \E isbn \in Isbns :
        LET r == eliminar_libro(libros, archivo, isbn)
        IN  /\ libros' = r.libros
            /\ archivo' = r.archivo
            /\ Registrar(Llamada("eliminar_libro", isbn, <<>>, <<>>, None, <<>>, 0, r))
            /\ UNCHANGED reloj

Prestar ==
    \E isbn \in Isbns, pedido \in Pedidos :
        LET prestatario == pedido[1]
            dias == pedido[2]
            i == buscar_por_isbn(libros, isbn)
            lee == i # 0 /\ prestar_libro_lee_reloj(libros[i], prestatario)
        IN  \E t1 \in reloj..MaxReloj :
            \E t2 \in t1..MaxReloj :
                /\ lee \/ (t1 = reloj /\ t2 = reloj)
                /\ LET r == prestar(libros, archivo, isbn, prestatario, dias, t1, t2)
                   IN  /\ libros' = r.libros
                       /\ archivo' = r.archivo
                       /\ Registrar(Llamada("prestar", isbn, <<>>, <<>>, None,
                                            prestatario, dias, r))
                /\ reloj' = t2

Devolver ==
    \E isbn \in Isbns :
        LET r == devolver(libros, archivo, isbn)
        IN  /\ libros' = r.libros
            /\ archivo' = r.archivo
            /\ Registrar(Llamada("devolver", isbn, <<>>, <<>>, None, <<>>, 0, r))
            /\ UNCHANGED reloj

BuscarPorTitulo ==
    \E texto \in Textos :
        /\ RegistrarConsulta("buscar_por_titulo", texto,
                             buscar_por_titulo(libros, texto), SinEstadisticas)
        /\ UNCHANGED <<libros, archivo, reloj>>

BuscarPorAutor ==
    \E texto \in Textos :
        /\ RegistrarConsulta("buscar_por_autor", texto,
                             buscar_por_autor(libros, texto), SinEstadisticas)
        /\ UNCHANGED <<libros, archivo, reloj>>

ListarDisponibles ==
    /\ RegistrarConsulta("listar_disponibles", <<>>,
                         listar_disponibles(libros), SinEstadisticas)
    /\ UNCHANGED <<libros, archivo, reloj>>

ListarPrestados ==
    /\ RegistrarConsulta("listar_prestados", <<>>,
                         listar_prestados(libros), SinEstadisticas)
    /\ UNCHANGED <<libros, archivo, reloj>>

Estadisticas ==
    /\ RegistrarConsulta("estadisticas", <<>>, <<>>, estadisticas(libros))
    /\ UNCHANGED <<libros, archivo, reloj>>

Next ==
    \/ AgregarLibro \/ EliminarLibro \/ Prestar \/ Devolver \/ Construir
    \/ BuscarPorTitulo \/ BuscarPorAutor \/ ListarDisponibles
    \/ ListarPrestados \/ Estadisticas

Spec == Init /\ [][Next]_vars

\* ------------------------------------------------------- the application
\* the names typed into the loan dialog
Nombres == {pedido[1] : pedido \in Pedidos}

\* BibliotecaGUI(): Biblioteca() and then _crear_datos_ejemplo
BibliotecaGUI_init(arch) ==
    LET b == Biblioteca_init(arch)
    IN  IF b.ret = "raise" THEN b ELSE crear_datos_ejemplo(b.libros, b.archivo)

\* the application started for the first time, with no file
InitGUI ==
    LET r == BibliotecaGUI_init(ArchivoAusente)
    IN  /\ libros = r.libros
        /\ archivo = r.archivo
        /\ reloj = 0
        /\ ciclo = SinCiclo
        /\ consulta = SinConsulta
        /\ ultimo = Llamada("BibliotecaGUI", "", <<>>, <<>>, None, <<>>, 0, r)

\* the application is closed and started again
IniciarGUI ==
    LET r == BibliotecaGUI_init(archivo)
    IN  /\ libros' = r.libros
        /\ archivo' = r.archivo
        /\ Registrar(Llamada("BibliotecaGUI", "", <<>>, <<>>, None, <<>>, 0, r))
        /\ UNCHANGED reloj

\* _agregar_libro, guardar: the fields stripped, titulo, autor and isbn
\* obligatory, an empty genero read as "General", ValueError shown in a dialog
GuiAgregarLibro ==
    \E obra \in Obras, isbn \in Isbns :
        LET titulo == strip(obra[1])
            autor == strip(obra[2])
            genero == IF obra[3] = None THEN "General" ELSE obra[3][1]
            llama == titulo # <<>> /\ autor # <<>> /\ isbn # ""
            r == IF llama
                 THEN agregar_libro(libros, archivo, titulo, autor, isbn, Some(genero))
                 ELSE Resultado(libros, archivo, "None", "", FALSE)
        IN  /\ Len(libros) < MaxLibros \/ r.ret # "Libro"
            /\ libros' = r.libros
            /\ archivo' = r.archivo
            /\ Registrar(Llamada("_agregar_libro", isbn, titulo, autor,
                                 Some(genero), <<>>, 0, r))
            /\ UNCHANGED reloj

\* _prestar_libro: the selected row's isbn, nothing when the book is on loan or
\* the dialog gave no name, else prestar for the default period
GuiPrestarLibro ==
    \E fila \in 1..MaxFila, prestatario \in Nombres :
        /\ fila <= Len(libros)
        /\ LET isbn == libros[fila].isbn
               i == buscar_por_isbn(libros, isbn)
               llama == i # 0 /\ libros[i].disponible /\ prestatario # <<>>
               lee == llama /\ prestar_libro_lee_reloj(libros[i], prestatario)
           IN  \E t1 \in reloj..MaxReloj :
               \E t2 \in t1..MaxReloj :
                   /\ lee \/ (t1 = reloj /\ t2 = reloj)
                   /\ LET r == IF llama
                               THEN prestar(libros, archivo, isbn, prestatario,
                                            DIAS_PRESTAMO, t1, t2)
                               ELSE Resultado(libros, archivo, "None", "", FALSE)
                      IN  /\ libros' = r.libros
                          /\ archivo' = r.archivo
                          /\ Registrar(Llamada("_prestar_libro", isbn, <<>>, <<>>,
                                               None, prestatario, DIAS_PRESTAMO, r))
                   /\ reloj' = t2

\* _devolver_libro: the selected row's isbn, nothing when the book is disponible
\* or the user does not confirm
GuiDevolverLibro ==
    \E fila \in 1..MaxFila, confirma \in BOOLEAN :
        /\ fila <= Len(libros)
        /\ LET isbn == libros[fila].isbn
               i == buscar_por_isbn(libros, isbn)
               llama == i # 0 /\ ~libros[i].disponible /\ confirma
               r == IF llama THEN devolver(libros, archivo, isbn)
                    ELSE Resultado(libros, archivo, "None", "", FALSE)
           IN  /\ libros' = r.libros
               /\ archivo' = r.archivo
               /\ Registrar(Llamada("_devolver_libro", isbn, <<>>, <<>>, None,
                                    <<>>, 0, r))
        /\ UNCHANGED reloj

\* _eliminar_libro: the selected row's isbn, nothing when the book is on loan
\* or the user does not confirm
GuiEliminarLibro ==
    \E fila \in 1..MaxFila, confirma \in BOOLEAN :
        /\ fila <= Len(libros)
        /\ LET isbn == libros[fila].isbn
               i == buscar_por_isbn(libros, isbn)
               llama == i # 0 /\ libros[i].disponible /\ confirma
               r == IF llama THEN eliminar_libro(libros, archivo, isbn)
                    ELSE Resultado(libros, archivo, "None", "", FALSE)
           IN  /\ libros' = r.libros
               /\ archivo' = r.archivo
               /\ Registrar(Llamada("_eliminar_libro", isbn, <<>>, <<>>, None,
                                    <<>>, 0, r))
        /\ UNCHANGED reloj

NextGUI ==
    \/ IniciarGUI \/ GuiAgregarLibro \/ GuiPrestarLibro
    \/ GuiDevolverLibro \/ GuiEliminarLibro

SpecGUI == InitGUI /\ [][NextGUI]_vars

\* ------------------------------------------- a file damaged between two runs
\* the keys somebody may delete from an object of the file
ClavesQuitadas == {"isbn", "genero", "disponible", "prestatario"}

ClavesDeLibro ==
    {"titulo", "autor", "isbn", "genero", "disponible",
     "fecha_prestamo", "fecha_devolucion", "prestatario"}

\* the file is as guardar_datos writes it
ArchivoIntegro(arch) ==
    /\ arch.bien_formado
    /\ \A i \in 1..Len(arch.texto) : DOMAIN arch.texto[i] = ClavesDeLibro

SinClave(d, clave) == [k \in DOMAIN d \ {clave} |-> d[k]]

\* The program is stopped and the file it left is edited by hand: either the
\* text is no longer JSON, or one object loses one key.
AlterarArchivo ==
    /\ archivo.existe
    /\ ArchivoIntegro(archivo)
    /\ \/ archivo' = [archivo EXCEPT !.bien_formado = FALSE]
       \/ \E i \in 1..Len(archivo.texto), clave \in ClavesQuitadas :
             archivo' = [archivo EXCEPT !.texto[i] = SinClave(@, clave)]
    /\ Registrar(Llamada("alterar", "", <<>>, <<>>, None, <<>>, 0,
                         Resultado(libros, archivo', "None", "", FALSE)))
    /\ UNCHANGED <<libros, reloj>>

\* A damaged file is followed up to the next start; the calls of a running
\* program are followed over the file the program wrote.
NextCarga ==
    \/ Construir
    \/ AlterarArchivo
    \/ /\ ArchivoIntegro(archivo)
       /\ (AgregarLibro \/ EliminarLibro \/ Prestar \/ Devolver)

SpecCarga == Init /\ [][NextCarga]_vars


\* ------------------------------------------------------------ the claims
Presente(o) == o # None

\* the book of the collection ls that buscar_por_isbn finds for isbn
Hallado(ls, isbn) == ls[buscar_por_isbn(ls, isbn)]

Existe(ls, isbn) == \E i \in 1..Len(ls) : ls[i].isbn = isbn

EnBlanco(nombre) == strip(nombre) = <<>>

\* the call left the collection and the file as they were and did not save
SinEfecto ==
    /\ libros' = libros
    /\ archivo' = archivo
    /\ ~ultimo'.guardo

\* C1: in every state reached from the empty catalogue by agregar_libro,
\* eliminar_libro, prestar and devolver calls (performed, not performed or
\* failed), each book has disponible = FALSE exactly when fecha_prestamo,
\* fecha_devolucion and prestatario are all present, and disponible = TRUE
\* exactly when all three are absent.
C1_EstadoDePrestamoCoherente ==
    \A i \in 1..Len(libros) :
        LET l == libros[i]
        IN  /\ ~l.disponible <=> (/\ Presente(l.fecha_prestamo)
                                  /\ Presente(l.fecha_devolucion)
                                  /\ Presente(l.prestatario))
            /\ l.disponible <=> (/\ ~Presente(l.fecha_prestamo)
                                 /\ ~Presente(l.fecha_devolucion)
                                 /\ ~Presente(l.prestatario))

\* C2: no two books of the collection have the same isbn, the empty isbn
\* included.
C2_IsbnUnico ==
    \A i, j \in 1..Len(libros) : i # j => libros[i].isbn # libros[j].isbn

\* C2 witness: the empty isbn is in a full collection and a second
\* agregar_libro with the empty isbn has just been refused.
C2_Testigo ==
    /\ Len(libros) = 2
    /\ Existe(libros, "")
    /\ ultimo.op = "agregar_libro" /\ ultimo.isbn = "" /\ ultimo.ret = "raise"

\* C3: agregar_libro with an isbn some book already has raises the duplicate-isbn
\* ValueError (DuplicateKey) whatever the other arguments and the loan state of
\* that book, and leaves the collection and the file as they were, without
\* saving.
C3_AgregarDuplicado ==
    [][(ultimo'.op = "agregar_libro" /\ Existe(libros, ultimo'.isbn))
         => (/\ ultimo'.ret = "raise"
             /\ ultimo'.error = "ValueError: isbn duplicado"
             /\ SinEfecto)]_vars

\* C3 witness: a duplicate isbn was refused while the book holding it is on
\* loan and has another title than the one offered.
C3_Testigo ==
    /\ ultimo.op = "agregar_libro"
    /\ ultimo.error = "ValueError: isbn duplicado"
    /\ ~Hallado(libros, ultimo.isbn).disponible
    /\ Hallado(libros, ultimo.isbn).titulo # ultimo.titulo

\* C4: agregar_libro with an isbn no book has returns the new book: the
\* collection is the old one with one book appended, and buscar_por_isbn then
\* finds a book with the titulo, autor, isbn and genero given ("General" when
\* genero is omitted), disponible and with no loan fields.
C4_AgregarNuevo ==
    [][(ultimo'.op = "agregar_libro" /\ ~Existe(libros, ultimo'.isbn))
         => (/\ ultimo'.ret = "Libro"
             /\ ultimo'.error = ""
             /\ Len(libros') = Len(libros) + 1
             /\ SubSeq(libros', 1, Len(libros)) = libros
             /\ buscar_por_isbn(libros', ultimo'.isbn) # 0
             /\ LET l == Hallado(libros', ultimo'.isbn)
                IN  /\ l.titulo = ultimo'.titulo
                    /\ l.autor = ultimo'.autor
                    /\ l.isbn = ultimo'.isbn
                    /\ l.genero = (IF ultimo'.genero = None THEN "General"
                                   ELSE ultimo'.genero[1])
                    /\ l.disponible
                    /\ ~Presente(l.fecha_prestamo)
                    /\ ~Presente(l.fecha_devolucion)
                    /\ ~Presente(l.prestatario))]_vars

\* C4 witness: a book was added without a genero behind a book that is on loan.
C4_Testigo ==
    /\ ultimo.op = "agregar_libro" /\ ultimo.ret = "Libro"
    /\ ultimo.genero = None
    /\ Len(libros) = 2
    /\ ~libros[1].disponible
    /\ libros[2].isbn = ultimo.isbn

\* C5: prestar of a book that is disponible, for a borrower name that is not
\* blank, returns True and changes only that book: disponible becomes FALSE,
\* prestatario the trimmed name, fecha_prestamo and fecha_devolucion present;
\* titulo, autor, isbn, genero and every other book stay as they were.
C5_PrestarDisponible ==
    [][(/\ ultimo'.op = "prestar"
        /\ Existe(libros, ultimo'.isbn)
        /\ Hallado(libros, ultimo'.isbn).disponible
        /\ ~EnBlanco(ultimo'.prestatario))
         => (/\ ultimo'.ret = "True"
             /\ Len(libros') = Len(libros)
             /\ \A i \in 1..Len(libros) :
                   IF i = buscar_por_isbn(libros, ultimo'.isbn)
                   THEN /\ ~libros'[i].disponible
                        /\ libros'[i].prestatario = Some(strip(ultimo'.prestatario))
                        /\ Presente(libros'[i].fecha_prestamo)
                        /\ Presente(libros'[i].fecha_devolucion)
                        /\ libros'[i].titulo = libros[i].titulo
                        /\ libros'[i].autor = libros[i].autor
                        /\ libros'[i].isbn = libros[i].isbn
                        /\ libros'[i].genero = libros[i].genero
                   ELSE libros'[i] = libros[i])]_vars


\* C6: prestar of a book of the collection for an empty or whitespace-only
\* borrower name raises the empty-name ValueError (InvalidArgument), whether the
\* book is disponible or on loan, and leaves the book, the collection and the
\* file as they were, without saving.
C6_PrestatarioEnBlanco ==
    [][(/\ ultimo'.op = "prestar"
        /\ Existe(libros, ultimo'.isbn)
        /\ EnBlanco(ultimo'.prestatario))
         => (/\ ultimo'.ret = "raise"
             /\ ultimo'.error = "ValueError: prestatario vacio"
             /\ SinEfecto)]_vars

\* C6 witness: a whitespace-only name was refused for a book that is on loan
\* while another book of the collection is disponible.
C6_Testigo ==
    /\ ultimo.op = "prestar"
    /\ ultimo.error = "ValueError: prestatario vacio"
    /\ ultimo.prestatario = <<" ">>
    /\ ~Hallado(libros, ultimo.isbn).disponible
    /\ \E i \in 1..Len(libros) : libros[i].disponible

\* C7: prestar of a book that is already on loan, for a borrower name that is
\* not blank, returns False without an error and leaves disponible,
\* prestatario, fecha_prestamo and fecha_devolucion as the earlier loan set
\* them; the file is not written.
C7_PrestarYaPrestado ==
    [][(/\ ultimo'.op = "prestar"
        /\ Existe(libros, ultimo'.isbn)
        /\ ~Hallado(libros, ultimo'.isbn).disponible
        /\ ~EnBlanco(ultimo'.prestatario))
         => (/\ ultimo'.ret = "False"
             /\ ultimo'.error = ""
             /\ SinEfecto)]_vars

\* C7 witness: a second borrower asked for a book whose loan to the first was
\* performed, and was turned down.
C7_Testigo ==
    /\ ultimo.op = "prestar" /\ ultimo.ret = "False"
    /\ LET l == Hallado(libros, ultimo.isbn)
       IN  /\ Presente(l.prestatario)
           /\ Presente(l.fecha_devolucion)
           /\ l.prestatario # Some(strip(ultimo.prestatario))

\* C8: devolver of a book that is disponible returns False without an error,
\* leaves the book and the collection as they were and does not write the file.
C8_DevolverDisponible ==
    [][(/\ ultimo'.op = "devolver"
        /\ Existe(libros, ultimo'.isbn)
        /\ Hallado(libros, ultimo'.isbn).disponible)
         => (/\ ultimo'.ret = "False"
             /\ ultimo'.error = ""
             /\ SinEfecto)]_vars

\* C8 witness: devolver was turned down for a book that is disponible while the
\* other book of the collection is on loan.
C8_Testigo ==
    /\ ultimo.op = "devolver" /\ ultimo.ret = "False"
    /\ Hallado(libros, ultimo.isbn).disponible
    /\ \E i \in 1..Len(libros) : ~libros[i].disponible

\* C9: a performed prestar starts from a book that is disponible with no loan
\* fields; the devolver that follows it returns True and leaves the book
\* disponible with prestatario, fecha_prestamo and fecha_devolucion absent, as
\* before the loan; a prestar to another borrower that follows is performed too.
C9_PrestarLuegoDevolver ==
    [][/\ (ultimo'.op = "prestar" /\ ultimo'.ret = "True")
            => LET l == Hallado(libros, ultimo'.isbn)
               IN  /\ l.disponible
                   /\ ~Presente(l.prestatario)
                   /\ ~Presente(l.fecha_prestamo)
                   /\ ~Presente(l.fecha_devolucion)
       /\ ciclo'.fase = 2
            => /\ ultimo'.op = "devolver" /\ ultimo'.ret = "True"
               /\ LET l == Hallado(libros', ciclo'.isbn)
                  IN  /\ l.disponible
                      /\ ~Presente(l.prestatario)
                      /\ ~Presente(l.fecha_prestamo)
                      /\ ~Presente(l.fecha_devolucion)
       /\ ciclo'.fase = 3
            => /\ ultimo'.op = "prestar" /\ ultimo'.ret = "True"
               /\ LET l == Hallado(libros', ciclo'.isbn)
                  IN  /\ ~l.disponible
                      /\ l.prestatario = Some(strip(ultimo'.prestatario))
                      /\ l.prestatario # Some(ciclo'.prestatario)]_vars

\* C9 witness: a book was lent, returned by the next call and lent to another
\* borrower by the call after that.
C9_Testigo ==
    /\ ciclo.fase = 3
    /\ ultimo.ret = "True"
    /\ ~Hallado(libros, ciclo.isbn).disponible

\* C10: prestar and devolver with an isbn no book has raise the not-found
\* ValueError (NotFound), for a blank borrower name as for any other, and leave
\* the collection and the file as they were, without saving.
C10_IsbnInexistente ==
    [][(/\ ultimo'.op \in {"prestar", "devolver"}
        /\ ~Existe(libros, ultimo'.isbn))
         => (/\ ultimo'.ret = "raise"
             /\ ultimo'.error = "ValueError: isbn no encontrado"
             /\ SinEfecto)]_vars

\* C10 witness: prestar with a blank borrower name and an isbn that the
\* collection, which holds another book, does not have.
C10_Testigo ==
    /\ ultimo.op = "prestar"
    /\ ultimo.error = "ValueError: isbn no encontrado"
    /\ EnBlanco(ultimo.prestatario)
    /\ Len(libros) = 1
    /\ ~Existe(libros, ultimo.isbn)


\* C11: eliminar_libro returns False and changes nothing when no book has the
\* isbn or the book is on loan; when the book is disponible it returns True,
\* that book alone is gone and the others keep their values and their order.
\* A book leaves the collection only while it is disponible.
C11_Eliminar ==
    [][/\ ultimo'.op = "eliminar_libro"
            => IF /\ Existe(libros, ultimo'.isbn)
                  /\ Hallado(libros, ultimo'.isbn).disponible
               THEN LET i == buscar_por_isbn(libros, ultimo'.isbn)
                    IN  /\ ultimo'.ret = "True"
                        /\ Len(libros') = Len(libros) - 1
                        /\ \A j \in 1..Len(libros') :
                              libros'[j] = IF j < i THEN libros[j]
                                           ELSE libros[j + 1]
                        /\ ~Existe(libros', ultimo'.isbn)
               ELSE /\ ultimo'.ret = "False"
                    /\ ultimo'.error = ""
                    /\ SinEfecto
       /\ \A i \in 1..Len(libros) :
             ~Existe(libros', libros[i].isbn) => libros[i].disponible]_vars

\* C11 witness: eliminar_libro was turned down for a book that is on loan and
\* still in the collection with its loan fields.
C11_Testigo ==
    /\ ultimo.op = "eliminar_libro" /\ ultimo.ret = "False"
    /\ Existe(libros, ultimo.isbn)
    /\ LET l == Hallado(libros, ultimo.isbn)
       IN  /\ ~l.disponible
           /\ Presente(l.prestatario)
           /\ Presente(l.fecha_prestamo)
           /\ Presente(l.fecha_devolucion)

\* C12: saving a collection and loading it back gives a collection of the same
\* length and order in which every book has the same eight field values, the
\* absent loan fields still absent.
C12_GuardarLuegoCargar ==
    LET cargados == cargar_datos(<<>>, guardar_datos(libros))
    IN  /\ Len(cargados) = Len(libros)
        /\ \A i \in 1..Len(libros) :
              /\ cargados[i].titulo = libros[i].titulo
              /\ cargados[i].autor = libros[i].autor
              /\ cargados[i].isbn = libros[i].isbn
              /\ cargados[i].genero = libros[i].genero
              /\ cargados[i].disponible = libros[i].disponible
              /\ cargados[i].fecha_prestamo = libros[i].fecha_prestamo
              /\ cargados[i].fecha_devolucion = libros[i].fecha_devolucion
              /\ cargados[i].prestatario = libros[i].prestatario

\* C12 witness: a new Biblioteca has loaded a saved collection of two books, one
\* on loan and one disponible.
C12_Testigo ==
    /\ ultimo.op = "__init__"
    /\ archivo.existe
    /\ Len(libros) = 2
    /\ ~libros[1].disponible /\ Presente(libros[1].prestatario)
    /\ libros[2].disponible /\ ~Presente(libros[2].prestatario)

\* C13: after every completed call, what cargar_datos reads from the file is
\* the collection in memory.
C13_ArchivoIgualMemoria ==
    cargar_datos(<<>>, archivo) = libros

\* C15: after a performed prestar for dias days, fecha_devolucion is
\* fecha_prestamo plus exactly dias days.
C15_DevolucionExacta ==
    (ultimo.op = "prestar" /\ ultimo.ret = "True")
        => LET l == Hallado(libros, ultimo.isbn)
           IN  l.fecha_devolucion =
                   Some(isoformat(SumaDias(l.fecha_prestamo[1][2], ultimo.dias)))

\* C16: a call that ends in an error leaves the collection in memory, and every
\* field of every book, as before the call.
C16_ErrorSinMutacion ==
    [][ultimo'.ret = "raise" => libros' = libros]_vars


\* the sum of the values of a dict of counts
RECURSIVE SumaValores(_)
SumaValores(f) ==
    IF DOMAIN f = {} THEN 0
    ELSE LET k == CHOOSE x \in DOMAIN f : TRUE
         IN  f[k] + SumaValores([x \in DOMAIN f \ {k} |-> f[x]])

\* C14: estadisticas returns total = number of books, disponibles + prestados =
\* total, disponibles and prestados the lengths of listar_disponibles and
\* listar_prestados, and for each genero of the collection the number of books
\* of that genero, the counts summing to total; with two books and one of them
\* on loan the counts are (2, 1, 1), with both disponible (2, 2, 0).
C14_Estadisticas ==
    consulta.op = "estadisticas"
        => LET st == consulta.stats
           IN  /\ st.total = Len(libros)
               /\ st.disponibles + st.prestados = st.total
               /\ st.disponibles = Len(listar_disponibles(libros))
               /\ st.prestados = Len(listar_prestados(libros))
               /\ st.disponibles =
                      Cardinality({i \in 1..Len(libros) : libros[i].disponible})
               /\ DOMAIN st.generos = {libros[i].genero : i \in 1..Len(libros)}
               /\ \A g \in DOMAIN st.generos :
                      st.generos[g] =
                          Cardinality({i \in 1..Len(libros) : libros[i].genero = g})
               /\ SumaValores(st.generos) = st.total
               /\ (Len(libros) = 2 /\ libros[1].disponible # libros[2].disponible)
                      => <<st.total, st.disponibles, st.prestados>> = <<2, 1, 1>>
               /\ (Len(libros) = 2 /\ libros[1].disponible /\ libros[2].disponible)
                      => <<st.total, st.disponibles, st.prestados>> = <<2, 2, 0>>

\* C14 witness: estadisticas of two books of different genero, one on loan.
C14_Testigo ==
    /\ consulta.op = "estadisticas"
    /\ consulta.stats.total = 2
    /\ consulta.stats.prestados = 1
    /\ Cardinality(DOMAIN consulta.stats.generos) = 2

\* the same letter, whatever its case
MismaLetra(c, d) ==
    \/ c = d
    \/ {c, d} = {"a", "A"}
    \/ {c, d} = {"b", "B"}
    \/ {c, d} \subseteq {"SIGMA", "sigma", "sigma_final"}

\* s contains sub, ignoring the case of the letters
ContieneSinCaja(sub, s) ==
    \E k \in 0..(Len(s) - Len(sub)) :
        \A j \in 1..Len(sub) : MismaLetra(sub[j], s[k + j])

\* lista is the books of ls at the positions idx, in the order of ls
EsSeleccion(lista, ls, idx) ==
    /\ Len(lista) = Cardinality(idx)
    /\ \A i \in idx : lista[Cardinality({j \in idx : j <= i})] = ls[i]

\* C18: buscar_por_titulo and buscar_por_autor return exactly the books whose
\* titulo (autor) contains the text ignoring case, listar_disponibles and
\* listar_prestados exactly the books with disponible TRUE (FALSE), each in the
\* order of the collection; the calls change neither the collection nor the
\* file; every book is in exactly one of the two listings.
C18_BusquedasYListados ==
    [][consulta'.op # ""
         => LET n == Len(libros)
            IN  /\ libros' = libros /\ archivo' = archivo
                /\ consulta'.op = "buscar_por_titulo"
                     => EsSeleccion(consulta'.lista, libros,
                            {i \in 1..n :
                                ContieneSinCaja(consulta'.texto, libros[i].titulo)})
                /\ consulta'.op = "buscar_por_autor"
                     => EsSeleccion(consulta'.lista, libros,
                            {i \in 1..n :
                                ContieneSinCaja(consulta'.texto, libros[i].autor)})
                /\ consulta'.op = "listar_disponibles"
                     => EsSeleccion(consulta'.lista, libros,
                            {i \in 1..n : libros[i].disponible})
                /\ consulta'.op = "listar_prestados"
                     => EsSeleccion(consulta'.lista, libros,
                            {i \in 1..n : ~libros[i].disponible})
                /\ LET d == listar_disponibles(libros)
                       p == listar_prestados(libros)
                   IN  /\ Len(d) + Len(p) = n
                       /\ \A i \in 1..n :
                             (\E j \in 1..Len(d) : d[j] = libros[i])
                                 # (\E j \in 1..Len(p) : p[j] = libros[i])]_vars


\* the keys the record description does not mark optional
ClavesRequeridas == {"titulo", "autor", "isbn", "genero", "disponible"}

\* C17 as stated: a start over a file that is not well-formed JSON, or that
\* holds an object lacking titulo, autor, isbn, genero or disponible, raises, and
\* leaves no collection.
C17_CargaCorrupta ==
    [][(/\ ultimo'.op = "__init__"
        /\ archivo.existe
        /\ \/ ~archivo.bien_formado
           \/ \E i \in 1..Len(archivo.texto) :
                 ~(ClavesRequeridas \subseteq DOMAIN archivo.texto[i]))
         => ultimo'.ret = "raise" /\ libros' = <<>>]_vars

\* the attribute a loaded book takes from the object d of the file
Cargado(d, clave, defecto) ==
    IF clave \in DOMAIN d THEN python_valor(clave, d[clave]) ELSE defecto

\* C17 amended: a start over a file that is not well-formed JSON raises
\* JSONDecodeError, over a file with an object lacking titulo, autor or isbn
\* raises KeyError, and in both cases no collection is loaded; otherwise the
\* start succeeds and an object lacking genero, disponible or a loan field is
\* loaded with "General", TRUE or None in its place.
C17_CargaConDefectos ==
    [][(ultimo'.op = "__init__" /\ archivo.existe)
         => LET texto == archivo.texto
            IN  IF ~archivo.bien_formado
                THEN /\ ultimo'.ret = "raise"
                     /\ ultimo'.error = "JSONDecodeError"
                     /\ libros' = <<>>
                ELSE IF \E i \in 1..Len(texto) :
                           ~({"titulo", "autor", "isbn"} \subseteq DOMAIN texto[i])
                THEN /\ ultimo'.ret = "raise"
                     /\ ultimo'.error = "KeyError"
                     /\ libros' = <<>>
                ELSE /\ ultimo'.ret = "None"
                     /\ Len(libros') = Len(texto)
                     /\ \A i \in 1..Len(texto) :
                          /\ libros'[i].titulo = texto[i]["titulo"].v
                          /\ libros'[i].autor = texto[i]["autor"].v
                          /\ libros'[i].isbn = texto[i]["isbn"].v
                          /\ libros'[i].genero = Cargado(texto[i], "genero", "General")
                          /\ libros'[i].disponible = Cargado(texto[i], "disponible", TRUE)
                          /\ libros'[i].prestatario = Cargado(texto[i], "prestatario", None)
                          /\ libros'[i].fecha_prestamo =
                                 Cargado(texto[i], "fecha_prestamo", None)
                          /\ libros'[i].fecha_devolucion =
                                 Cargado(texto[i], "fecha_devolucion", None)]_vars

\* C17 witness: a start loaded a book whose object in the file has no
\* disponible key: the book is disponible by default and still has its
\* prestatario.
C17_Testigo ==
    /\ ultimo.op = "__init__"
    /\ ultimo.ret = "None"
    /\ \E i \in 1..Len(libros) :
          /\ "disponible" \notin DOMAIN archivo.texto[i]
          /\ libros[i].disponible
          /\ Presente(libros[i].prestatario)


\* C19: at every start of the application, when the collection loaded from the
\* file is empty the eight example books are added and saved, and when it is
\* not empty nothing is added: a collection emptied with eliminar_libro is not
\* empty after the restart, a non-empty one is after the restart what it was
\* before, and the file with it.
C19_EjemplosAlIniciar ==
    [][ultimo'.op = "BibliotecaGUI"
         => LET cargados == cargar_datos(<<>>, archivo)
            IN  IF Len(cargados) = 0
                THEN /\ Len(libros') = Len(EJEMPLOS)
                     /\ \A k \in 1..Len(EJEMPLOS) :
                           libros'[k] = Libro(EJEMPLOS[k][1], EJEMPLOS[k][2],
                                              EJEMPLOS[k][3], EJEMPLOS[k][4])
                     /\ cargar_datos(<<>>, archivo') = libros'
                     /\ libros = <<>>
                ELSE /\ libros' = libros
                     /\ libros' = cargados
                     /\ archivo' = archivo]_vars

\* C19 witness: after a loan had been made, a restart found the collection
\* empty and added and saved the eight examples.
C19_Testigo ==
    /\ ultimo.op = "BibliotecaGUI"
    /\ ultimo.guardo
    /\ reloj > 0
    /\ Len(libros) = Len(EJEMPLOS)

====
